---- MODULE Spec2Model ----
(***************************************************************************)
(* Model of charger_monitor_api.py: a poller that diffs the connector      *)
(* statuses returned by the status API against the in-memory map           *)
(* last_known_status, appends rows to a CSV log, sends Telegram batches    *)
(* and reloads last_known_status from the CSV at process start.            *)
(*                                                                         *)
(* Strings of the source that are not ASCII are written in ASCII here:     *)
(*   ONLINE  stands for the label STATUS_MAP gives 'Available',            *)
(*   OFFLINE stands for the label STATUS_MAP gives 'Unavailable'.          *)
(* Device ids are non-numeric strings, so that a ChargerID cell read back  *)
(* by pandas is the string that was written.                               *)
(***************************************************************************)
EXTENDS Integers, Sequences, FiniteSets, TLC

\* ------------------------------------------------------------------ bounds
\* Rows the CSV file has room for: to_csv raises once the disk is full.
MaxRows == 1
\* Consecutive Status Source failures that are followed.
MaxFailures == 4

\* The most connectors a poll of the batch-loop specification returns.
MaxAlerts == 23

\* The most records of a log that initialize() is started on directly.
MaxLogRows == 2

\* The most connector entries of a response that is parsed on its own.
MaxEntries == 2

\* ------------------------------------------------------ program constants
BATCH_SIZE == 10

PyNone == "<None>"
ONLINE == "online"
OFFLINE == "offline"

DeviceIds == {"c1", "c2"}
RawStatuses == {"Available", "Unavailable", "Charging"}

\* STATUS_MAP.get(detailed_status, detailed_status)
STATUS_MAP(raw) ==
    IF raw = "Available" THEN ONLINE
    ELSE IF raw = "Unavailable" THEN OFFLINE
    ELSE raw

\* ------------------------------------------------------------ dictionaries
\* last_known_status is a dict that is only ever read with .get(): a function
\* on the set of its keys.  current_statuses is iterated, so it keeps the
\* insertion order: a sequence of [id, status] pairs with distinct ids.
EmptyDict == [k \in {} |-> PyNone]

DictGet(d, k) == IF k \in DOMAIN d THEN d[k] ELSE PyNone

Keys(items) == {items[i].id : i \in 1..Len(items)}

\* current_statuses[connector_id] = mapped_status
DictSet(items, k, v) ==
    IF k \in Keys(items)
    THEN [i \in 1..Len(items) |->
             IF items[i].id = k THEN [id |-> k, status |-> v] ELSE items[i]]
    ELSE Append(items, [id |-> k, status |-> v])

\* current_statuses.copy(), as the map it denotes
AsDict(items) ==
    [k \in Keys(items) |->
        items[CHOOSE i \in 1..Len(items) : items[i].id = k].status]

\* ------------------------------------------------------------ Status Source
\* A response of the status API: the request fails (connection error, HTTP
\* error status, timeout, body that is not JSON), or it carries the connector
\* entries of all charge points of 'data' in the order the nested loops of
\* get_charger_status visit them.  A missing key is PyNone (dict.get).
Entries == [deviceId : DeviceIds, detailedStatus : RawStatuses \cup {PyNone}]

\* The API lists every connector once: entries of distinct deviceId, in any
\* order, for any subset of the connectors.
ConnectorLists ==
    LET lists == UNION {[1..m -> Entries] : m \in 0..Cardinality(DeviceIds)}
    IN  {l \in lists : \A i, j \in 1..Len(l) : l[i].deviceId = l[j].deviceId => i = j}

Responses ==
    {[ok |-> FALSE, connectors |-> <<>>]}
    \cup [ok : {TRUE}, connectors : ConnectorLists]

\* str(x)
Str(x) == IF x = PyNone THEN "None" ELSE x

\* truth value of a string or None
Truthy(x) == x # PyNone /\ x # ""

RECURSIVE ParseConnectors(_, _)
ParseConnectors(connectors, current) ==
    IF connectors = <<>> THEN current
    ELSE LET connector == Head(connectors)
             connector_id == Str(connector.deviceId)
             detailed_status == connector.detailedStatus
         IN  ParseConnectors(Tail(connectors),
                 IF Truthy(connector_id) /\ Truthy(detailed_status)
                 THEN DictSet(current, connector_id, STATUS_MAP(detailed_status))
                 ELSE current)

get_charger_status(response) ==
    IF ~response.ok THEN <<>>
    ELSE IF response.connectors = <<>> THEN <<>>
    ELSE ParseConnectors(response.connectors, <<>>)

\* ------------------------------------------------------------------ CSV log
\* The CSV file: whether it exists, whether its first line is the header line
\* initialize() writes, and its data rows in file order.
MissingFile == [exists |-> FALSE, header |-> FALSE, rows |-> <<>>]
ZeroByteFile == [exists |-> TRUE, header |-> FALSE, rows |-> <<>>]
HeaderOnlyFile == [exists |-> TRUE, header |-> TRUE, rows |-> <<>>]

Row(timestamp, charger_id, old_status, new_status) ==
    [Timestamp |-> timestamp, ChargerID |-> charger_id,
     OldStatus |-> IF old_status = PyNone THEN "INITIAL" ELSE old_status,
     NewStatus |-> new_status]

\* to_csv(CSV_FILE, mode='a', header=False): one more row at the end of the
\* file (the file is created when it is missing); the caught exception leaves
\* the file as it was.
log_status_change(file, charger_id, old_status, new_status, now, written) ==
    IF written
    THEN [exists |-> TRUE, header |-> file.header,
          rows |-> Append(file.rows, Row(now, charger_id, old_status, new_status))]
    ELSE file

\* get_current_gmt8_time(): the ticks of a process are three minutes apart
\* and a restart takes more than a second, so the clock a tick reads is later
\* than every Timestamp already in the file.  Timestamps are kept by their
\* rank: only their order is ever used (sort_values).
RECURSIVE MaxTimestamp(_)
MaxTimestamp(rows) ==
    IF rows = <<>> THEN 0
    ELSE LET m == MaxTimestamp(Tail(rows))
         IN  IF Head(rows).Timestamp > m THEN Head(rows).Timestamp ELSE m

get_current_gmt8_time(file) == MaxTimestamp(file.rows) + 1

\* df.sort_values('Timestamp'): rows in ascending Timestamp order.  Rows of
\* equal Timestamp keep their file order here; they are rows of one tick, so
\* of different ChargerIDs, and their order does not reach latest_records.
RECURSIVE InsertSorted(_, _)
InsertSorted(sorted, row) ==
    IF sorted = <<>> THEN <<row>>
    ELSE IF Head(sorted).Timestamp <= row.Timestamp
         THEN <<Head(sorted)>> \o InsertSorted(Tail(sorted), row)
         ELSE <<row>> \o sorted

RECURSIVE sort_values(_)
sort_values(df) ==
    IF df = <<>> THEN <<>>
    ELSE InsertSorted(sort_values(SubSeq(df, 1, Len(df) - 1)), df[Len(df)])

\* drop_duplicates(subset=['ChargerID'], keep='last')
\* .set_index('ChargerID')['NewStatus'].to_dict()
latest_records(df) ==
    LET sorted == sort_values(df)
        ids == {sorted[i].ChargerID : i \in 1..Len(sorted)}
        last(k) == CHOOSE i \in 1..Len(sorted) :
                       /\ sorted[i].ChargerID = k
                       /\ \A j \in (i + 1)..Len(sorted) : sorted[j].ChargerID # k
    IN  [k \in ids |-> sorted[last(k)].NewStatus]

\* pd.read_csv: the error it raises ("" for none), the data rows of the frame
\* and whether the frame has a column named Timestamp.  Without the header
\* line the first row is taken for the column names.
read_csv(file) ==
    IF ~file.exists THEN [error |-> "FileNotFoundError", df |-> <<>>, named |-> FALSE]
    ELSE IF ~file.header /\ file.rows = <<>>
         THEN [error |-> "EmptyDataError", df |-> <<>>, named |-> FALSE]
    ELSE IF file.header THEN [error |-> "", df |-> file.rows, named |-> TRUE]
    ELSE [error |-> "", df |-> Tail(file.rows), named |-> FALSE]

\* initialize() writing the header-only file whenever it loads nothing
initialize_recreates_log(file, known) ==
    LET r == read_csv(file)
    IN  IF r.error = "" /\ r.df # <<>> /\ r.named
        THEN [last_known_status |-> latest_records(r.df), is_first_run |-> FALSE,
              file |-> file]
        ELSE [last_known_status |-> known, is_first_run |-> TRUE,
              file |-> HeaderOnlyFile]

\* initialize() without line 274: the flag stays as the module set it
initialize_keeps_first_run(file, known) ==
    LET r == read_csv(file)
    IN  IF r.error = "FileNotFoundError"
        THEN [last_known_status |-> known, is_first_run |-> TRUE,
              file |-> HeaderOnlyFile]
        ELSE IF r.error = "" /\ r.df # <<>> /\ r.named
        THEN [last_known_status |-> latest_records(r.df), is_first_run |-> TRUE,
              file |-> file]
        ELSE [last_known_status |-> known, is_first_run |-> TRUE, file |-> file]

\* initialize() putting the header line in front of a file that lacks it
initialize_adds_header(file, known) ==
    LET r == read_csv(file)
    IN  IF r.error = "FileNotFoundError"
        THEN [last_known_status |-> known, is_first_run |-> TRUE,
              file |-> HeaderOnlyFile]
        ELSE IF r.error = "" /\ r.df # <<>> /\ r.named
        THEN [last_known_status |-> latest_records(r.df), is_first_run |-> FALSE,
              file |-> file]
        ELSE IF r.error = "" /\ ~r.named
        THEN [last_known_status |-> known, is_first_run |-> TRUE,
              file |-> [file EXCEPT !.header = TRUE]]
        ELSE [last_known_status |-> known, is_first_run |-> TRUE, file |-> file]

\* The try statement of initialize(): the globals and the file it leaves.
initialize(file, known) ==
    LET r == read_csv(file)
    IN  IF r.error = "FileNotFoundError"
        THEN [last_known_status |-> known, is_first_run |-> TRUE,
              file |-> HeaderOnlyFile]
        ELSE IF r.error # ""
        THEN [last_known_status |-> known, is_first_run |-> TRUE, file |-> file]
        ELSE IF r.df = <<>>
        THEN [last_known_status |-> known, is_first_run |-> TRUE, file |-> file]
        ELSE IF ~r.named   \* KeyError: 'Timestamp'
        THEN [last_known_status |-> known, is_first_run |-> TRUE, file |-> file]
        ELSE [last_known_status |-> latest_records(r.df), is_first_run |-> FALSE,
              file |-> file]

\* ------------------------------------------------- check_and_report_status
\* is_change_detected; Python reads it as (a != b) or (first and a is None)
is_change_detected(old_status, new_status, first) ==
    (old_status # new_status) \/ (first /\ old_status = PyNone)

\* alert_type without its first branch: the start-up snapshot is not reported
alert_type_no_initial(old_status, new_status, first) ==
    IF new_status = OFFLINE THEN "offline"
    ELSE IF old_status = OFFLINE /\ new_status = ONLINE THEN "recovery"
    ELSE ""

\* alert_type with a last branch that reports every other change as well
alert_type_any_change(old_status, new_status, first) ==
    IF first THEN "initial"
    ELSE IF new_status = OFFLINE THEN "offline"
    ELSE IF old_status = OFFLINE /\ new_status = ONLINE THEN "recovery"
    ELSE "change"

\* The if/elif chain that sets is_alert and alert_type ("" : is_alert False)
alert_type(old_status, new_status, first) ==
    IF first THEN "initial"
    ELSE IF new_status = OFFLINE THEN "offline"
    ELSE IF old_status = OFFLINE /\ new_status = ONLINE THEN "recovery"
    ELSE ""

\* single_alert_message, by the values it interpolates
Alert(charger_id, old_status, new_status, type) ==
    [charger_id |-> charger_id,
     old_status |-> IF old_status = PyNone THEN "N/A" ELSE old_status,
     new_status |-> new_status,
     alert_type |-> type]

Min(a, b) == IF a <= b THEN a ELSE b

\* alerts_to_send[i:i + BATCH_SIZE], i counted from 0
\* the slice alerts_to_send[i:i + BATCH_SIZE - 1]
Batch_one_short(alerts, i) ==
    SubSeq(alerts, i + 1, Min(i + BATCH_SIZE - 1, Len(alerts)))

Batch(alerts, i) == SubSeq(alerts, i + 1, Min(i + BATCH_SIZE, Len(alerts)))

VARIABLES
    csv,                \* the file CSV_FILE
    last_known_status,  \* global
    is_first_run,       \* global
    pc,                 \* where the process is
    now,                \* local: the clock the tick reads
    current_statuses,   \* local of check_and_report_status
    idx,                \* position of the for loop over current_statuses
    alerts_to_send,     \* local of check_and_report_status
    batch_i,            \* i of the batch loop
    calls,              \* the send_telegram_notification calls of the tick
    known_at_start,     \* last_known_status when the tick began
    csv_at_start,       \* the file when the tick began
    append_attempts,    \* charger ids log_status_change was called for
    append_failed,      \* charger ids whose to_csv raised in this tick
    first_completed,    \* no tick of this process ran to its end before this one
    same_as_prev,       \* this tick polled what the last completed tick polled
    prev_poll,          \* what the last completed tick of this process polled
    consecutive_failures, \* Status Source failures in a row
    failure_alerts,     \* notifier calls made for them in this run of failures
    skipped,            \* why the last tick returned early ("" : it did not)
    polled_response     \* the response get_charger_status is applied to

vars == <<csv, last_known_status, is_first_run, pc, now, current_statuses,
          idx, alerts_to_send, batch_i, calls, known_at_start, csv_at_start,
          append_attempts, append_failed, first_completed, same_as_prev,
          prev_poll, consecutive_failures, failure_alerts, skipped,
          polled_response>>

globals == <<last_known_status, is_first_run>>
locals == <<now, current_statuses, idx, alerts_to_send, batch_i, calls>>
tick_history == <<known_at_start, csv_at_start, append_attempts, append_failed,
                  first_completed, same_as_prev>>
process_history == <<prev_poll>>
source_history == <<consecutive_failures, failure_alerts, skipped>>

\* No response is kept: the ticks draw theirs as they poll.
NoResponse == [ok |-> FALSE, connectors |-> <<>>]

NoPoll == [polled |-> FALSE, statuses |-> EmptyDict]

\* No tick is running: its locals are gone.
NoTick ==
    /\ now = 0
    /\ current_statuses = <<>>
    /\ idx = 1
    /\ alerts_to_send = <<>>
    /\ batch_i = 0
    /\ calls = <<>>
    /\ known_at_start = EmptyDict
    /\ csv_at_start = MissingFile
    /\ append_attempts = <<>>
    /\ append_failed = {}
    /\ first_completed = FALSE
    /\ same_as_prev = FALSE

\* The locals of a tick go away.
DropTick ==
    /\ now' = 0
    /\ current_statuses' = <<>>
    /\ idx' = 1
    /\ alerts_to_send' = <<>>
    /\ batch_i' = 0
    /\ calls' = <<>>
    /\ known_at_start' = EmptyDict
    /\ csv_at_start' = MissingFile
    /\ append_attempts' = <<>>
    /\ append_failed' = {}
    /\ first_completed' = FALSE
    /\ same_as_prev' = FALSE

\* A process that has just been started: the module-level assignments.
ProcessStart ==
    /\ last_known_status = EmptyDict
    /\ is_first_run = TRUE
    /\ pc = "start"
    /\ prev_poll = NoPoll
    /\ consecutive_failures = 0
    /\ failure_alerts = 0
    /\ skipped = ""
    /\ polled_response = NoResponse

Init ==
    /\ csv \in {MissingFile, ZeroByteFile, HeaderOnlyFile}
    /\ ProcessStart
    /\ NoTick

\* initialize(), up to its call of check_and_report_status
Initialize ==
    /\ pc = "start"
    /\ LET r == initialize(csv, last_known_status)
       IN  /\ last_known_status' = r.last_known_status
           /\ is_first_run' = r.is_first_run
           /\ csv' = r.file
    /\ pc' = "idle"
    /\ UNCHANGED <<locals, tick_history, process_history, source_history,
                   polled_response>>

\* the early return placed after line 213: the empty poll replaces the map
ReturnEarlyAfterUpdate ==
    /\ pc' = "idle"
    /\ last_known_status' = EmptyDict
    /\ UNCHANGED <<csv, is_first_run, locals, tick_history, process_history,
                   polled_response>>

\* Lines 164-166: "if not current_statuses: return"
\* the early return placed after line 255
ReturnEarly_clears_flag ==
    /\ pc' = "idle"
    /\ is_first_run' = FALSE
    /\ UNCHANGED <<csv, last_known_status, locals, tick_history,
                   process_history, polled_response>>

ReturnEarly ==
    /\ pc' = "idle"
    /\ UNCHANGED <<csv, globals, locals, tick_history, process_history,
                   polled_response>>

\* A tick whose poll yields no status: get_charger_status returned {},
\* because the request failed or because the response held no valid entry.
TickSkipped ==
    /\ pc = "idle"
    /\ ReturnEarly
    /\ \E response \in Responses :
          /\ get_charger_status(response) = <<>>
          /\ IF response.ok
             THEN /\ consecutive_failures' = 0
                  /\ failure_alerts' = 0
                  /\ skipped' = "empty_poll"
             ELSE /\ consecutive_failures < MaxFailures
                  /\ consecutive_failures' = consecutive_failures + 1
                  /\ failure_alerts' = failure_alerts + Len(calls')
                  /\ skipped' = "source_failed"

\* A tick whose poll yields statuses, up to the for loop.
TickBegins ==
    /\ pc = "idle"
    /\ \E response \in Responses :
          /\ get_charger_status(response) # <<>>
          /\ current_statuses' = get_charger_status(response)
    /\ now' = get_current_gmt8_time(csv)
    /\ pc' = "loop"
    /\ known_at_start' = last_known_status
    /\ csv_at_start' = csv
    /\ first_completed' = ~prev_poll.polled
    /\ same_as_prev' = (prev_poll.polled /\ prev_poll.statuses = AsDict(current_statuses'))
    /\ consecutive_failures' = 0
    /\ failure_alerts' = 0
    /\ skipped' = ""
    /\ UNCHANGED <<csv, globals, idx, alerts_to_send, batch_i, calls,
                   append_attempts, append_failed, process_history,
                   polled_response>>

\* to_csv succeeds or raises; it raises when the disk is full.
CanWrite(file) == IF Len(file.rows) < MaxRows THEN BOOLEAN ELSE {FALSE}

\* One iteration of "for charger_id, new_status in current_statuses.items()"
\* the for loop with log_status_change called before `if is_alert`
LoopStep_logs_every_change ==
    /\ pc = "loop"
    /\ LET charger_id == current_statuses[idx].id
           new_status == current_statuses[idx].status
           old_status == DictGet(last_known_status, charger_id)
           type == alert_type(old_status, new_status, is_first_run)
       IN  IF is_change_detected(old_status, new_status, is_first_run)
           THEN \E written \in CanWrite(csv) :
                   /\ csv' = log_status_change(csv, charger_id, old_status,
                                               new_status, now, written)
                   /\ append_attempts' = Append(append_attempts, charger_id)
                   /\ append_failed' = IF written THEN append_failed
                                       ELSE append_failed \cup {charger_id}
                   /\ alerts_to_send' =
                         IF type # ""
                         THEN Append(alerts_to_send,
                                  Alert(charger_id, old_status, new_status, type))
                         ELSE alerts_to_send
           ELSE UNCHANGED <<csv, append_attempts, append_failed, alerts_to_send>>
    /\ idx' = idx + 1
    /\ pc' = IF idx = Len(current_statuses) THEN "update" ELSE "loop"
    /\ UNCHANGED <<globals, now, current_statuses, batch_i, calls,
                   known_at_start, csv_at_start, first_completed, same_as_prev,
                   process_history, source_history, polled_response>>

LoopStep ==
    /\ pc = "loop"
    /\ LET charger_id == current_statuses[idx].id
           new_status == current_statuses[idx].status
           old_status == DictGet(last_known_status, charger_id)
           type == alert_type(old_status, new_status, is_first_run)
       IN  IF is_change_detected(old_status, new_status, is_first_run) /\ type # ""
           THEN \E written \in CanWrite(csv) :
                   /\ csv' = log_status_change(csv, charger_id, old_status,
                                               new_status, now, written)
                   /\ append_attempts' = Append(append_attempts, charger_id)
                   /\ append_failed' = IF written THEN append_failed
                                       ELSE append_failed \cup {charger_id}
                   /\ alerts_to_send' = Append(alerts_to_send,
                          Alert(charger_id, old_status, new_status, type))
           ELSE UNCHANGED <<csv, append_attempts, append_failed, alerts_to_send>>
    /\ idx' = idx + 1
    /\ pc' = IF idx = Len(current_statuses) THEN "update" ELSE "loop"
    /\ UNCHANGED <<globals, now, current_statuses, batch_i, calls,
                   known_at_start, csv_at_start, first_completed, same_as_prev,
                   process_history, source_history, polled_response>>

\* line 213 lost: the map stays what it was
newly_updated_status_stale(known, statuses) == known

\* newly_updated_status when the for loop is over: current_statuses.copy()
newly_updated_status(known, statuses) == AsDict(statuses)

\* Line 213: last_known_status = newly_updated_status
UpdateMemory ==
    /\ pc = "update"
    /\ last_known_status' = newly_updated_status(last_known_status, current_statuses)
    /\ pc' = IF alerts_to_send # <<>> THEN "send" ELSE "finish"
    /\ UNCHANGED <<csv, is_first_run, locals, tick_history, process_history,
                   source_history, polled_response>>

\* the batch loop without its break
more_batches_no_break(sent, i, n) == i + BATCH_SIZE < n

\* The batch loop goes on to a next batch: the call did not raise (break) and
\* range(0, n, BATCH_SIZE) has a value after i.
more_batches(sent, i, n) == sent /\ i + BATCH_SIZE < n

\* One iteration of the batch loop: the call succeeds or raises (break).
SendBatch ==
    /\ pc = "send"
    /\ \E sent \in BOOLEAN :
          /\ calls' = Append(calls,
                 [batch |-> Batch(alerts_to_send, batch_i),
                  title |-> IF is_first_run THEN "startup" ELSE "change",
                  sent |-> sent])
          /\ IF more_batches(sent, batch_i, Len(alerts_to_send))
             THEN batch_i' = batch_i + BATCH_SIZE /\ pc' = "send"
             ELSE batch_i' = batch_i /\ pc' = "finish"
    /\ UNCHANGED <<csv, globals, now, current_statuses, idx, alerts_to_send,
                   tick_history, process_history, source_history,
                   polled_response>>

\* the end of the tick without line 255
Finish_keeps_flag ==
    /\ pc = "finish"
    /\ pc' = "done"
    /\ prev_poll' = [polled |-> TRUE, statuses |-> AsDict(current_statuses)]
    /\ UNCHANGED <<csv, globals, locals, tick_history, source_history,
                   polled_response>>

\* Line 255: is_first_run = False
Finish ==
    /\ pc = "finish"
    /\ is_first_run' = FALSE
    /\ pc' = "done"
    /\ prev_poll' = [polled |-> TRUE, statuses |-> AsDict(current_statuses)]
    /\ UNCHANGED <<csv, last_known_status, locals, tick_history, source_history,
                   polled_response>>

\* check_and_report_status returns: its locals are gone.
Return ==
    /\ pc = "done"
    /\ pc' = "idle"
    /\ DropTick
    /\ UNCHANGED <<csv, globals, process_history, source_history,
                   polled_response>>

\* The process dies (at any point after its start) and is started again:
\* only the file survives.
Crash ==
    /\ pc # "start"
    /\ pc' = "start"
    /\ last_known_status' = EmptyDict
    /\ is_first_run' = TRUE
    /\ prev_poll' = NoPoll
    /\ consecutive_failures' = 0
    /\ failure_alerts' = 0
    /\ skipped' = ""
    /\ DropTick
    /\ UNCHANGED <<csv, polled_response>>

Next ==
    \/ Initialize
    \/ TickSkipped
    \/ TickBegins
    \/ LoopStep
    \/ UpdateMemory
    \/ SendBatch
    \/ Finish
    \/ Return
    \/ Crash

Spec == Init /\ [][Next]_vars

\* ------------------------------------- the batch loop on long alert lists

Digits == <<"0", "1", "2", "3", "4", "5", "6", "7", "8", "9">>

\* The deviceId of the i-th connector of a large site.
ManyId(i) == "d" \o Digits[(i \div 10) + 1] \o Digits[(i % 10) + 1]

\* What a poll of n connectors, all in one status, returns.
ManyStatuses(n, status) ==
    [i \in 1..n |-> [id |-> ManyId(i), status |-> status]]

\* The log a first tick that found n connectors online has left.
ManyRows(n) == [i \in 1..n |-> Row(1, ManyId(i), PyNone, ONLINE)]

\* A process started on an empty log, or on the log of n online connectors,
\* has polled n connectors offline, run the for loop over them and updated
\* its memory: the tick stands before its first batch.
InitBatch ==
    \E n \in 1..MaxAlerts, logged \in BOOLEAN :
        LET before == IF logged
                      THEN [HeaderOnlyFile EXCEPT !.rows = ManyRows(n)]
                      ELSE HeaderOnlyFile
            started == initialize(before, EmptyDict)
            known == started.last_known_status
            t == get_current_gmt8_time(before)
        IN  /\ csv_at_start = before
            /\ known_at_start = known
            /\ is_first_run = started.is_first_run
            /\ now = t
            /\ current_statuses = ManyStatuses(n, OFFLINE)
            /\ idx = n + 1
            /\ alerts_to_send =
                  [i \in 1..n |->
                      Alert(ManyId(i), DictGet(known, ManyId(i)), OFFLINE,
                            alert_type(DictGet(known, ManyId(i)), OFFLINE,
                                       started.is_first_run))]
            /\ csv = [before EXCEPT !.rows = before.rows \o
                  [i \in 1..n |->
                      Row(t, ManyId(i), DictGet(known, ManyId(i)), OFFLINE)]]
            /\ append_attempts = [i \in 1..n |-> ManyId(i)]
            /\ append_failed = {}
            /\ last_known_status =
                  newly_updated_status(known, ManyStatuses(n, OFFLINE))
            /\ batch_i = 0
            /\ calls = <<>>
            /\ pc = "send"
            /\ first_completed = TRUE
            /\ same_as_prev = FALSE
            /\ prev_poll = NoPoll
            /\ consecutive_failures = 0
            /\ failure_alerts = 0
            /\ skipped = ""
            /\ polled_response = NoResponse

NextBatch ==
    \/ SendBatch
    \/ Finish
    \/ Return

SpecBatch == InitBatch /\ [][NextBatch]_vars

\* ------------------------------------ get_charger_status() on any response

\* Connector entries as the API may send them: either key may be missing.
AnyEntries ==
    [deviceId : DeviceIds \cup {PyNone},
     detailedStatus : RawStatuses \cup {PyNone}]

AnyResponses ==
    {[ok |-> FALSE, connectors |-> <<>>]}
    \cup [ok : {TRUE},
          connectors : UNION {[1..m -> AnyEntries] : m \in 0..MaxEntries}]

\* A process started on a header-only log is about to poll; the response the
\* API will give is any of AnyResponses.
InitParse ==
    /\ polled_response \in AnyResponses
    /\ csv = HeaderOnlyFile
    /\ last_known_status = EmptyDict
    /\ is_first_run = TRUE
    /\ pc = "idle"
    /\ prev_poll = NoPoll
    /\ consecutive_failures = 0
    /\ failure_alerts = 0
    /\ skipped = ""
    /\ NoTick

\* Line 162: current_statuses = get_charger_status()
Poll ==
    /\ pc = "idle"
    /\ current_statuses' = get_charger_status(polled_response)
    /\ pc' = "polled"
    /\ UNCHANGED <<csv, globals, now, idx, alerts_to_send, batch_i, calls,
                   tick_history, process_history, source_history,
                   polled_response>>

NextParse == Poll

SpecParse == InitParse /\ [][NextParse]_vars

\* ------------------------------------------- initialize() on any log file

\* The records a log may hold: any connector, any canonical status, times
\* that repeat or run backwards.
LogRecords ==
    {Row(t, id, PyNone, status) :
        t \in 1..MaxLogRows, id \in DeviceIds, status \in {ONLINE, OFFLINE}}

RECURSIVE SeqsUpTo(_, _)
SeqsUpTo(S, n) ==
    IF n = 0 THEN {<<>>}
    ELSE LET shorter == SeqsUpTo(S, n - 1)
         IN  shorter \cup {Append(s, x) : s \in shorter, x \in S}

\* The files a process may be started on: none, or one with or without the
\* header line holding up to MaxLogRows records.
Logs ==
    {MissingFile} \cup
    [exists : {TRUE}, header : BOOLEAN, rows : SeqsUpTo(LogRecords, MaxLogRows)]

InitReconstruct ==
    /\ csv \in Logs
    /\ ProcessStart
    /\ NoTick

\* The process is started, runs initialize(), and is started again.
NextReconstruct ==
    \/ Initialize
    \/ Crash

SpecReconstruct == InitReconstruct /\ [][NextReconstruct]_vars

\* -------------------------------------------------------------- properties
\* What a tick has done, read from the state it leaves.
TickDone == pc = "done"
Polled == Keys(current_statuses)
PolledStatus(id) == AsDict(current_statuses)[id]
PriorStatus(id) == DictGet(known_at_start, id)
\* The canonical status polled for id differs from its prior in-memory status.
Changed(id) == id \in Polled /\ PriorStatus(id) # PolledStatus(id)
NoStorageError == append_failed = {}
AppendedRows == SubSeq(csv.rows, Len(csv_at_start.rows) + 1, Len(csv.rows))
RowsOf(rows, id) == SelectSeq(rows, LAMBDA r : r.ChargerID = id)
AlertsOf(id) == SelectSeq(alerts_to_send, LAMBDA a : a.charger_id = id)
Last(seq) == seq[Len(seq)]
\* What a restart would load from the file as it is now.
Reloaded == initialize(csv, EmptyDict).last_known_status
\* The tick is the first one of its process to run to its end, and the log
\* held no row when it began.
FirstTickOnEmptyLog == first_completed /\ csv_at_start.rows = <<>>

\* C1: after a tick that completes without a storage error, for every
\* connector whose status the tick detected as changed, the latest record of
\* that connector in the log has NewStatus equal to its status in
\* last_known_status.
C1_LatestRecordMatchesMemory ==
    (TickDone /\ NoStorageError) =>
        \A id \in Polled :
            Changed(id) =>
                /\ RowsOf(csv.rows, id) # <<>>
                /\ Last(RowsOf(csv.rows, id)).NewStatus = DictGet(last_known_status, id)

\* C2: between ticks, a restart (initialize replaying the log) yields the map
\* last_known_status held just before the restart.
C2_RestartRebuildsMemory ==
    pc = "idle" => Reloaded = last_known_status

\* C3 as stated: on the first successful tick of a process started on an empty
\* or missing log, every polled connector is recorded in the log with the
\* no-prior-record sentinel as old status, no alert is enqueued and the
\* notifier is not called.
C3_FirstTickSendsNothing ==
    (TickDone /\ FirstTickOnEmptyLog /\ NoStorageError) =>
        /\ \A id \in Polled :
              /\ Len(RowsOf(AppendedRows, id)) = 1
              /\ RowsOf(AppendedRows, id)[1].OldStatus = "INITIAL"
        /\ alerts_to_send = <<>>
        /\ calls = <<>>

\* C3 as amended: on that tick every polled connector whose append does not
\* fail is recorded once, with old status INITIAL and the polled status as new
\* status; one alert is enqueued for every polled connector, in polling order,
\* as an initial-status alert; and the notifier is called, with the start-up
\* report title.
C3_FirstTickReportsEveryConnector ==
    (TickDone /\ FirstTickOnEmptyLog) =>
        /\ \A id \in Polled \ append_failed :
              /\ Len(RowsOf(AppendedRows, id)) = 1
              /\ RowsOf(AppendedRows, id)[1].OldStatus = "INITIAL"
              /\ RowsOf(AppendedRows, id)[1].NewStatus = PolledStatus(id)
        /\ Len(alerts_to_send) = Len(current_statuses)
        /\ \A i \in 1..Len(alerts_to_send) :
              /\ alerts_to_send[i].charger_id = current_statuses[i].id
              /\ alerts_to_send[i].new_status = current_statuses[i].status
              /\ alerts_to_send[i].old_status = "N/A"
              /\ alerts_to_send[i].alert_type = "initial"
        /\ Len(calls) >= 1
        /\ \A i \in 1..Len(calls) : calls[i].title = "startup"

\* C3 witness: such a first tick polled both connectors, recorded one of them
\* and enqueued an alert for each.
C3_Witness ==
    /\ TickDone
    /\ FirstTickOnEmptyLog
    /\ Polled = DeviceIds
    /\ Len(AppendedRows) >= 1
    /\ Len(alerts_to_send) = 2

\* C4: in every successful tick exactly one record is appended for every polled
\* connector whose canonical status differs from its prior in-memory status,
\* and none for any other connector.
C4_OneRecordPerChange ==
    (TickDone /\ NoStorageError) =>
        \A id \in DeviceIds :
            Len(RowsOf(AppendedRows, id)) = IF Changed(id) THEN 1 ELSE 0

\* The alert filter policy of the specification, for a detected transition.
AlertWorthy(old_status, new_status) ==
    \/ new_status = OFFLINE
    \/ old_status = OFFLINE /\ new_status = ONLINE

\* C5: on a successful tick that is not the first one of its process, a
\* detected transition enqueues exactly one alert if the new status is the
\* offline label or the transition is offline to online, and no alert
\* otherwise; a connector without a detected transition gets no alert.
C5_AlertFilterPolicy ==
    (TickDone /\ ~first_completed) =>
        \A id \in DeviceIds :
            Len(AlertsOf(id)) =
                IF Changed(id) /\ AlertWorthy(PriorStatus(id), PolledStatus(id))
                THEN 1 ELSE 0

\* C5 witness: a later tick saw a recovery, alerted, and another change that
\* is not alert-worthy, not alerted.
C5_Witness ==
    /\ TickDone
    /\ ~first_completed
    /\ \E id \in Polled :
          /\ PriorStatus(id) = OFFLINE
          /\ PolledStatus(id) = ONLINE
          /\ Len(AlertsOf(id)) = 1
    /\ \E id \in Polled :
          /\ Changed(id)
          /\ ~AlertWorthy(PriorStatus(id), PolledStatus(id))
          /\ AlertsOf(id) = <<>>

\* C6: a tick that polls the mapping the last completed tick of the process
\* polled appends no record, enqueues no alert and calls no notifier.
C6_NoChangeTickIsNoOp ==
    same_as_prev =>
        /\ csv = csv_at_start
        /\ alerts_to_send = <<>>
        /\ append_attempts = <<>>
        /\ calls = <<>>

\* C6 witness: such a tick ran to its end, on a map that held an offline
\* connector.
C6_Witness ==
    /\ TickDone
    /\ same_as_prev
    /\ \E id \in Polled : PolledStatus(id) = OFFLINE

\* C7: after a tick, every connector that was in the map before the tick and
\* is not in the poll is still in the map with its previous status, and the
\* tick produced no record and no alert for it.
C7_AbsentConnectorsKept ==
    TickDone =>
        \A id \in (DOMAIN known_at_start) \ Polled :
            /\ id \in DOMAIN last_known_status
            /\ last_known_status[id] = known_at_start[id]
            /\ RowsOf(AppendedRows, id) = <<>>
            /\ AlertsOf(id) = <<>>

\* C8: when the append of a connector's record failed in a tick, the tick does
\* not update the in-memory status of that connector.
C8_FailedAppendKeepsMemory ==
    TickDone =>
        \A id \in append_failed :
            DictGet(last_known_status, id) = DictGet(known_at_start, id)

\* C9: in a run of consecutive Status Source failures exactly one failure
\* alert is sent, at the third failure: none before it, one from then on.
C9_FailureThreshold ==
    failure_alerts = IF consecutive_failures >= 3 THEN 1 ELSE 0

AllSent == \A k \in 1..Len(calls) : calls[k].sent

\* The alerts of the calls made so far, in the order they were sent.
RECURSIVE SentAlerts(_)
SentAlerts(k) ==
    IF k = 0 THEN <<>> ELSE SentAlerts(k - 1) \o calls[k].batch

Ceil(n, d) == (n + d - 1) \div d

\* C11: a tick with n >= 1 alerts and no failing notifier call makes
\* ceil(n / 10) calls; every call but the last carries 10 alerts, the last
\* carries the rest (1 to 10), and the calls put end to end are the alerts of
\* the tick in their order.
C11_BatchesPartitionAlerts ==
    (pc \in {"finish", "done"} /\ Len(alerts_to_send) >= 1 /\ AllSent) =>
        /\ Len(calls) = Ceil(Len(alerts_to_send), BATCH_SIZE)
        /\ \A k \in 1..(Len(calls) - 1) : Len(calls[k].batch) = BATCH_SIZE
        /\ Len(calls[Len(calls)].batch) =
              Len(alerts_to_send) - BATCH_SIZE * (Len(calls) - 1)
        /\ Len(calls[Len(calls)].batch) \in 1..BATCH_SIZE
        /\ SentAlerts(Len(calls)) = alerts_to_send

\* 23 alerts have gone out as 10, 10 and 3.
C11_Witness ==
    /\ pc = "done"
    /\ Len(alerts_to_send) = 23
    /\ AllSent
    /\ [k \in 1..Len(calls) |-> Len(calls[k].batch)] = <<10, 10, 3>>

\* The last call made so far raised.
LastCallFailed == calls # <<>> /\ ~Last(calls).sent

\* C12: when a notifier call fails on some batch, no later batch of the tick
\* is attempted, the tick goes on to its end, and neither the log nor the
\* in-memory state is touched by the batch loop or the end of the tick.
C12_FailedBatchStopsSending ==
    [][/\ LastCallFailed => Len(calls') <= Len(calls)
       /\ (pc = "send" /\ ~Last(calls').sent) => pc' = "finish"
       /\ pc = "finish" => pc' = "done" /\ calls' = calls
       /\ pc \in {"send", "finish"} =>
             /\ csv' = csv
             /\ last_known_status' = last_known_status]_vars

\* The first of several batches failed and the tick has ended: one call was
\* made, the rows of the tick are in the log and the poll is in memory.
C12_Witness ==
    /\ pc = "done"
    /\ Len(alerts_to_send) > BATCH_SIZE
    /\ Len(calls) = 1
    /\ LastCallFailed
    /\ Len(csv.rows) = Len(csv_at_start.rows) + Len(alerts_to_send)
    /\ last_known_status = AsDict(current_statuses)

IsPrefix(s, t) == Len(s) <= Len(t) /\ SubSeq(t, 1, Len(s)) = s

InTick == pc \in {"loop", "update", "send", "finish", "done"}

\* C14: at every point of a tick, every status change that is visible in
\* last_known_status (the status of a connector differs from the one held
\* when the tick began) has its record among the rows the tick appended.
C14_MemoryChangeIsLogged ==
    InTick =>
        \A id \in DOMAIN last_known_status :
            last_known_status[id] # DictGet(known_at_start, id) =>
                \E i \in 1..Len(AppendedRows) :
                    /\ AppendedRows[i].ChargerID = id
                    /\ AppendedRows[i].NewStatus = last_known_status[id]

\* C15 as stated: whatever the log held at startup, the first-tick flag is
\* true from process start until the first successful tick of the process
\* completes, and false from then on.
C15_FlagTrueUntilFirstTickCompletes ==
    is_first_run = ~prev_poll.polled

\* The file has its header line and at least one record.
HasRecords(file) == file.exists /\ file.header /\ file.rows # <<>>

\* C15: initialize() leaves the first-tick flag true exactly when the log
\* gives it no record to load; the end of a successful tick makes the flag
\* false; no other step of a process changes it, so it stays true across
\* skipped (failed) ticks and, once false, is never true again in the
\* lifetime of the process.
C15_FlagFollowsLogThenFirstTick ==
    [][/\ (pc = "start" /\ pc' = "idle") => is_first_run' = ~HasRecords(csv)
       /\ (pc = "finish" /\ pc' = "done") => ~is_first_run'
       /\ (pc \notin {"start", "finish"} /\ pc' # "start") =>
             is_first_run' = is_first_run]_vars

\* A process whose flag was true has completed its first successful tick
\* and the flag is false.
C15_Witness ==
    /\ pc = "done"
    /\ first_completed
    /\ known_at_start = EmptyDict
    /\ ~is_first_run

\* C16: reconstruction is idempotent and tolerates an empty log: once
\* initialize() has run on any log, running it again on the file it left,
\* with nothing appended in between, yields the mapping the process holds and
\* leaves that file as it is; a log without records (missing, zero bytes, or
\* the header line alone) yields the empty mapping.
C16_ReconstructionIsIdempotent ==
    pc = "idle" =>
        LET again == initialize(csv, EmptyDict)
        IN  /\ again.last_known_status = last_known_status
            /\ again.file = csv
            /\ csv.rows = <<>> => last_known_status = EmptyDict

\* initialize() has loaded a mapping from a log of two records.
C16_Witness ==
    /\ pc = "idle"
    /\ Len(csv.rows) = 2
    /\ last_known_status # EmptyDict

\* The positions of the entries of the response that carry both keys.
WellFormed ==
    {i \in 1..Len(polled_response.connectors) :
        /\ polled_response.connectors[i].deviceId # PyNone
        /\ polled_response.connectors[i].detailedStatus # PyNone}

\* C17: the mapping get_charger_status returns has a key for the deviceId of
\* every well-formed entry of the response and no other key: an entry that
\* lacks deviceId or detailedStatus contributes none.
C17_MalformedEntriesSkipped ==
    pc = "polled" =>
        Keys(current_statuses) =
            {polled_response.connectors[i].deviceId : i \in WellFormed}

\* C18: whenever is_first_run is true when a tick starts, last_known_status
\* is empty; so in the for loop of a first-run tick every polled connector
\* has no old status and is detected as changed, and when the loop is over
\* each of them has its entry, with old status N/A, in alerts_to_send.
C18_FirstRunStartsFromEmptyMemory ==
    /\ (pc \in {"idle", "loop", "update"} /\ is_first_run) =>
          last_known_status = EmptyDict
    /\ (pc = "loop" /\ is_first_run) =>
          \A id \in Polled :
              /\ PriorStatus(id) = PyNone
              /\ is_change_detected(DictGet(last_known_status, id),
                                    PolledStatus(id), is_first_run)
    /\ (pc = "update" /\ is_first_run) =>
          /\ Len(alerts_to_send) = Len(current_statuses)
          /\ \A i \in 1..Len(alerts_to_send) :
                /\ alerts_to_send[i].charger_id = current_statuses[i].id
                /\ alerts_to_send[i].old_status = "N/A"

\* The for loop of a first-run tick over two connectors is over.
C18_Witness ==
    /\ pc = "update"
    /\ is_first_run
    /\ Len(current_statuses) = 2
    /\ Len(alerts_to_send) = 2

\* C19: at every point of a tick, the connectors log_status_change was called
\* for are the connectors of the alerts enqueued so far, one call per alert,
\* in the same order; whether the append went through plays no part.
C19_AppendAttemptPerAlert ==
    InTick =>
        append_attempts =
            [i \in 1..Len(alerts_to_send) |-> alerts_to_send[i].charger_id]

\* A tick has enqueued alerts for two connectors; the append of at least one
\* of them failed.
C19_Witness ==
    /\ pc = "update"
    /\ Len(alerts_to_send) = 2
    /\ append_failed # {}

\* C20: a tick whose poll succeeds but yields no connector returns early as
\* a tick whose poll failed does: every tick that returns early, for either
\* reason, leaves last_known_status, is_first_run and the log as they were
\* and calls the notifier for no alert.
C20_EmptyPollHandledAsFailure ==
    [][(pc = "idle" /\ skipped' \in {"empty_poll", "source_failed"}) =>
          /\ pc' = "idle"
          /\ last_known_status' = last_known_status
          /\ is_first_run' = is_first_run
          /\ csv' = csv
          /\ alerts_to_send' = <<>>
          /\ calls' = <<>>]_vars

\* The first tick of a process polled no connector: the process still waits
\* for its first run.
C20_Witness ==
    /\ pc = "idle"
    /\ skipped = "empty_poll"
    /\ is_first_run
    /\ csv.rows = <<>>

====
